---- MODULE Spec2Model ----
(***************************************************************************)
(* TicketChain (programs/ticketchain/src/lib.rs): events, ticket mints,    *)
(* resale listings with escrow custody, and the lamport balances of the    *)
(* parties.  Every instruction is one transaction: the account validation  *)
(* of its Accounts struct followed by its handler, committed only when     *)
(* both return Ok.                                                         *)
(*                                                                         *)
(* Addresses are modelled by their seeds: an event is <<organizer, nonce>>,*)
(* a ticket mint is <<event, sequence number>>, the listing and the escrow *)
(* token account of a mint are keyed by the mint, an associated token      *)
(* account by <<owner, mint>>.  Rent deposits and transaction fees are     *)
(* charged and returned by the runtime and are not part of `balance`,      *)
(* which holds the lamports moved by system_program::transfer.             *)
(*                                                                         *)
(* Spec runs the six instructions on small prices and supplies.  LiveSpec  *)
(* adds sellers who do cancel.  SplitSpec computes the resale shares of    *)
(* u64 prices, and CounterSpec runs the sold counter of buy_ticket on u32  *)
(* values, both in 16-bit limbs.                                           *)
(***************************************************************************)
EXTENDS Integers, Sequences, FiniteSets, TLC

\* ---------------------------------------------------------------- bounds
Parties == {"alice", "bob", "carol"}
Organizers == {"alice", "bob"}
Nonces == {0}
MaxSupply == 2
EventPrices == {3}
ListPrices == {0, 1, 7}
InitBalance == [p \in Parties |-> CASE p = "alice" -> 4 [] p = "bob" -> 2 [] OTHER -> 8]
\* committed transactions explored
MaxTx == 5
\* resale prices for which the split is computed
MaxSplitPrice == 200
\* buy_ticket calls explored from each pair of 32-bit counters
MaxBuys == 3

\* ------------------------------------------------------ program constants
MaxTitleLen == 64
MaxVenueLen == 64
MaxTierNameLen == 32

\* title, venue and tier_name lengths offered to create_event
LenCases ==
  { <<MaxTitleLen, MaxVenueLen, MaxTierNameLen>>,
    <<MaxTitleLen + 1, MaxVenueLen, MaxTierNameLen>>,
    <<MaxTitleLen, MaxVenueLen + 1, MaxTierNameLen>>,
    <<MaxTitleLen, MaxVenueLen, MaxTierNameLen + 1>> }

EventKeys == Organizers \X Nonces
MintIds == EventKeys \X (0 .. MaxSupply - 1)

VARIABLES
  events,     \* Event accounts: event key -> record
  mints,      \* ticket mint accounts that exist
  atas,       \* associated token accounts: <<owner, mint>> -> amount
  escrows,    \* escrow token accounts: mint -> amount
  listings,   \* Listing accounts: mint -> record
  balance,    \* lamports of each party
  txCount,    \* transactions committed so far
  lastTx,     \* the instruction of the transaction committed last
  split,      \* the 64-bit computation of the resale shares (SplitSpec)
  counter     \* the 32-bit sold counter of one event (CounterSpec)

vars ==
  <<events, mints, atas, escrows, listings, balance, txCount, lastTx, split,
    counter>>

\* The accounts a transaction reads and writes.
Cur ==
  [ events |-> events, mints |-> mints, atas |-> atas, escrows |-> escrows,
    listings |-> listings, balance |-> balance ]

Ok(S) == [res |-> "Ok", st |-> S]
\* A failed instruction: the runtime discards every write of the transaction.
Err(code, S) == [res |-> code, st |-> S]

\* variant: the writes made before the error stay
KeepWrites(S, W) == W
\* An error returned by a constraint, a require! or a `?` after the accounts
\* were already written to W: the transaction is reverted to S, the accounts
\* it started from.
Rollback(S, W) == S

\* f with key k set to v, k added to the domain when absent
Put(f, k, v) == [x \in DOMAIN f \cup {k} |-> IF x = k THEN v ELSE f[x]]
\* variant: the key stays
Keep(f, k) == f
\* f without key k
Del(f, k) == [x \in DOMAIN f \ {k} |-> f[x]]
\* tokens held by token account k (none when the account does not exist)
Amount(A, k) == IF k \in DOMAIN A THEN A[k] ELSE 0

\* system_program::transfer(from, to, amount)?
SystemTransfer(bal, from, to, amount) ==
  IF bal[from] < amount
    THEN [ok |-> FALSE, bal |-> bal]
    ELSE [ok |-> TRUE,
          bal |-> [p \in DOMAIN bal |->
                     bal[p] - (IF p = from THEN amount ELSE 0)
                            + (IF p = to THEN amount ELSE 0)]]

\* init_if_needed on an associated token account
InitIfNeeded(A, k) == IF k \in DOMAIN A THEN A ELSE Put(A, k, 0)

\* ------------------------------------------------------------ create_event
SupplyValid(supply) == supply > 0

CreateEvent(S, organizer, nonce, lens, price, supply) ==
  LET e == <<organizer, nonce>> IN
  IF e \in DOMAIN S.events THEN Err("AlreadyExists", S)
  ELSE IF ~(lens[1] <= MaxTitleLen) THEN Err("TitleTooLong", S)
  ELSE IF ~(lens[2] <= MaxVenueLen) THEN Err("VenueTooLong", S)
  ELSE IF ~(lens[3] <= MaxTierNameLen) THEN Err("TierNameTooLong", S)
  ELSE IF ~SupplyValid(supply) THEN Err("InvalidSupply", S)
  ELSE Ok([S EXCEPT !.events =
             Put(S.events, e,
                 [organizer |-> organizer, nonce |-> nonce,
                  price_lamports |-> price, supply |-> supply, sold |-> 0])])

\* -------------------------------------------------------------- buy_ticket
\* seeds of the ticket mint: the event and its sold counter
TicketMintSeeds(e, ev) == <<e, ev.sold>>

\* variant: the ticket mint declared init_if_needed
TicketMintInitIfNeeded(S, m) == TRUE
\* `init` of the ticket mint: the address must not hold an account yet
TicketMintInit(S, m) == m \notin S.mints

\* variant: the supply check off by one
NotSoldOutOffByOne(ev) == ev.sold <= ev.supply
\* require!(event.sold < event.supply, SoldOut)
NotSoldOut(ev) == ev.sold < ev.supply

\* variant: the transfer made with 0 lamports
TicketPaymentOfNothing(S, buyer, organizer, ev) ==
  SystemTransfer(S.balance, buyer, organizer, 0)
\* the buyer pays the event's price to the organizer
TicketPayment(S, buyer, organizer, ev) ==
  SystemTransfer(S.balance, buyer, organizer, ev.price_lamports)

\* variant: mint_to with amount 2
MintTwo(A, k) == [InitIfNeeded(A, k) EXCEPT ![k] = @ + 2]
\* mint_to(.., 1) into the buyer's associated token account
MintTo(A, k) == [InitIfNeeded(A, k) EXCEPT ![k] = @ + 1]

\* sold.checked_add(1) is None: sold = u32::MAX, that is 65535 * 65536 + 65535
IsU32Max(x) == (x \div 65536 = 65535) /\ (x % 65536 = 65535)

BuyTicket(S, buyer, organizer, e) ==
  IF e \notin DOMAIN S.events THEN Err("NotFound", S)
  ELSE
    LET ev == S.events[e]
        m == TicketMintSeeds(e, ev)
        pay == TicketPayment(S, buyer, organizer, ev)
        \* the accounts after `init` of the mint and of the token account
        W0 == [S EXCEPT !.mints = S.mints \cup {m},
                        !.atas = InitIfNeeded(S.atas, <<buyer, m>>)]
        \* the accounts after the payment and mint_to
        W1 == [S EXCEPT !.balance = pay.bal,
                        !.mints = S.mints \cup {m},
                        !.atas = MintTo(S.atas, <<buyer, m>>)]
    IN
    IF ~TicketMintInit(S, m) THEN Err("AlreadyExists", S)
    ELSE IF organizer # ev.organizer
      THEN Err("ConstraintAddress", Rollback(S, W0))
    ELSE IF ~NotSoldOut(ev) THEN Err("SoldOut", Rollback(S, W0))
    ELSE IF ~pay.ok THEN Err("InsufficientFunds", Rollback(S, W0))
    ELSE IF IsU32Max(ev.sold) THEN Err("Overflow", Rollback(S, W1))
    ELSE Ok([S EXCEPT
               !.balance = pay.bal,
               !.mints = S.mints \cup {m},
               !.atas = MintTo(S.atas, <<buyer, m>>),
               !.events = [S.events EXCEPT ![e].sold = ev.sold + 1]])

\* --------------------------------------------------------- list_for_resale
PriceValid(price) == price > 0

\* a Listing account as `init` leaves it, before the handler fills it in
BlankListing ==
  [seller |-> "default", event |-> <<"default", 0>>,
   ticket_mint |-> <<<<"default", 0>>, 0>>, price_lamports |-> 0]

ListForResale(S, seller, e, m, price) ==
  IF e \notin DOMAIN S.events THEN Err("NotFound", S)
  ELSE IF m \notin S.mints THEN Err("NotFound", S)
  ELSE IF <<seller, m>> \notin DOMAIN S.atas THEN Err("NotFound", S)
  ELSE IF m \in DOMAIN S.listings THEN Err("AlreadyExists", S)
  ELSE IF m \in DOMAIN S.escrows THEN Err("AlreadyExists", S)
  ELSE
  \* the accounts after `init` of the Listing and of the escrow token account
  LET W0 == [S EXCEPT !.escrows = Put(S.escrows, m, 0),
                      !.listings = Put(S.listings, m, BlankListing)]
  IN
  IF ~PriceValid(price) THEN Err("InvalidPrice", Rollback(S, W0))
  ELSE IF S.atas[<<seller, m>>] < 1
    THEN Err("InsufficientTokens", Rollback(S, W0))
  ELSE Ok([S EXCEPT
             !.atas = [S.atas EXCEPT ![<<seller, m>>] = @ - 1],
             !.escrows = Put(S.escrows, m, 1),
             !.listings =
               Put(S.listings, m,
                   [seller |-> seller, event |-> e, ticket_mint |-> m,
                    price_lamports |-> price])])

\* -------------------------------------------------------------- buy_resale
\* the 40/40/20 split in u64; the prices of this model (ListPrices, and
\* 1 .. MaxSplitPrice) keep price * 40 far below 2^64
ArtistShare(price) == (price * 40) \div 100
SellerShare(price) == (price * 40) \div 100
\* variant: the platform share computed as its own 20%
PlatformShareFifth(price) == (price * 20) \div 100
PlatformShare(price) == price - ArtistShare(price) - SellerShare(price)

\* constraints of BuyResale
ResaleSellerOk(l, seller) == seller = l.seller
\* variant: the organizer account not checked
ResaleOrganizerAny(ev, organizer) == TRUE
ResaleOrganizerOk(ev, organizer) == organizer = ev.organizer
ListingEventOk(l, e) == l.event = e
ListingMintOk(l, m) == l.ticket_mint = m

\* variant: the escrow token account left open
KeepEscrow(E, m) == E
\* close_account on the (emptied) escrow token account
CloseEscrow(E, m) == Del(E, m)

\* variant: the Listing declared without `close`
KeepListing(L, m) == L
\* `close = seller` on the Listing account
CloseListing(L, m) == Del(L, m)

BuyResale(S, buyer, seller, organizer, platform, e, m) ==
  IF e \notin DOMAIN S.events THEN Err("NotFound", S)
  ELSE IF m \notin S.mints THEN Err("NotFound", S)
  ELSE IF m \notin DOMAIN S.listings THEN Err("NotFound", S)
  ELSE IF m \notin DOMAIN S.escrows THEN Err("NotFound", S)
  ELSE
    LET l == S.listings[m]
        price == l.price_lamports
        t1 == SystemTransfer(S.balance, buyer, organizer, ArtistShare(price))
        t2 == SystemTransfer(t1.bal, buyer, seller, SellerShare(price))
        t3 == SystemTransfer(t2.bal, buyer, platform, PlatformShare(price))
        A == InitIfNeeded(S.atas, <<buyer, m>>)
        \* the accounts after init_if_needed of the buyer's token account
        W0 == [S EXCEPT !.atas = A]
    IN
    IF ~ResaleSellerOk(l, seller) THEN Err("InvalidSeller", Rollback(S, W0))
    ELSE IF ~ResaleOrganizerOk(S.events[e], organizer)
      THEN Err("InvalidOrganizer", Rollback(S, W0))
    ELSE IF ~ListingEventOk(l, e) THEN Err("ConstraintRaw", Rollback(S, W0))
    ELSE IF ~ListingMintOk(l, m) THEN Err("ConstraintRaw", Rollback(S, W0))
    ELSE IF ~t1.ok THEN Err("InsufficientFunds", Rollback(S, W0))
    ELSE IF ~t2.ok
      THEN Err("InsufficientFunds", Rollback(S, [W0 EXCEPT !.balance = t1.bal]))
    ELSE IF ~t3.ok
      THEN Err("InsufficientFunds", Rollback(S, [W0 EXCEPT !.balance = t2.bal]))
    ELSE IF S.escrows[m] < 1
      THEN Err("InsufficientTokens", Rollback(S, [W0 EXCEPT !.balance = t3.bal]))
    ELSE IF S.escrows[m] - 1 # 0
      THEN Err("NonNativeHasBalance",
               Rollback(S, [W0 EXCEPT
                              !.balance = t3.bal,
                              !.atas = [A EXCEPT ![<<buyer, m>>] = @ + 1],
                              !.escrows = [S.escrows EXCEPT ![m] = @ - 1]]))
    ELSE Ok([S EXCEPT
               !.balance = t3.bal,
               !.atas = [A EXCEPT ![<<buyer, m>>] = @ + 1],
               !.escrows = CloseEscrow([S.escrows EXCEPT ![m] = @ - 1], m),
               !.listings = CloseListing(S.listings, m)])

\* ---------------------------------------------------------- cancel_listing
\* variant: cancelling reserved to the organizer of the listing's event
CancelByOrganizer(l, seller) == l.event[1] = seller
\* variant: the seller constraint left out
CancelSellerAny(l, seller) == TRUE
\* constraint = listing.seller == seller.key() @ InvalidSeller
CancelSellerOk(l, seller) == l.seller = seller

CancelListing(S, seller, m) ==
  IF m \notin S.mints THEN Err("NotFound", S)
  ELSE IF m \notin DOMAIN S.listings THEN Err("NotFound", S)
  ELSE IF m \notin DOMAIN S.escrows THEN Err("NotFound", S)
  ELSE
    LET l == S.listings[m]
        A == InitIfNeeded(S.atas, <<seller, m>>)
        \* the accounts after init_if_needed of the seller's token account
        W0 == [S EXCEPT !.atas = A]
    IN
    IF ~CancelSellerOk(l, seller) THEN Err("InvalidSeller", Rollback(S, W0))
    ELSE IF S.escrows[m] < 1 THEN Err("InsufficientTokens", Rollback(S, W0))
    ELSE IF S.escrows[m] - 1 # 0
      THEN Err("NonNativeHasBalance",
               Rollback(S, [W0 EXCEPT
                              !.atas = [A EXCEPT ![<<seller, m>>] = @ + 1],
                              !.escrows = [S.escrows EXCEPT ![m] = @ - 1]]))
    ELSE Ok([S EXCEPT
               !.atas = [A EXCEPT ![<<seller, m>>] = @ + 1],
               !.escrows = CloseEscrow([S.escrows EXCEPT ![m] = @ - 1], m),
               !.listings = CloseListing(S.listings, m)])

\* ------------------------------------------------------------- close_event
\* variant: the organizer constraint left out
CloseOrganizerAny(ev, organizer) == TRUE
\* constraint = event.organizer == organizer.key() @ InvalidOrganizer
CloseOrganizerOk(ev, organizer) == ev.organizer = organizer

CloseEvent(S, organizer, e) ==
  IF e \notin DOMAIN S.events THEN Err("NotFound", S)
  ELSE IF ~CloseOrganizerOk(S.events[e], organizer)
    THEN Err("InvalidOrganizer", S)
  ELSE Ok([S EXCEPT !.events = Del(S.events, e)])

\* ----------------------------------------------------------- transactions
\* One transaction: the accounts the instruction wrote are committed when it
\* returned Ok; a failed transaction leaves every account as it was.
Commit(op, r) ==
  /\ txCount < MaxTx
  /\ events' = r.st.events
  /\ mints' = r.st.mints
  /\ atas' = r.st.atas
  /\ escrows' = r.st.escrows
  /\ listings' = r.st.listings
  /\ balance' = r.st.balance
  /\ txCount' = IF r.res = "Ok" THEN txCount + 1 ELSE txCount
  /\ lastTx' = IF r.res = "Ok" THEN op ELSE lastTx
  /\ UNCHANGED <<split, counter>>

Init ==
  /\ events = << >>
  /\ mints = {}
  /\ atas = << >>
  /\ escrows = << >>
  /\ listings = << >>
  /\ balance = InitBalance
  /\ txCount = 0
  /\ lastTx = "none"
  /\ split = [pc |-> "off"]
  /\ counter = [pc |-> "off"]

create_event ==
  \E organizer \in Organizers, nonce \in Nonces, lens \in LenCases,
     price \in EventPrices, supply \in 0 .. MaxSupply :
    Commit("create_event", CreateEvent(Cur, organizer, nonce, lens, price, supply))

buy_ticket ==
  \E buyer \in Parties, organizer \in Parties, e \in EventKeys :
    Commit("buy_ticket", BuyTicket(Cur, buyer, organizer, e))

list_for_resale ==
  \E seller \in Parties, e \in EventKeys, m \in MintIds, price \in ListPrices :
    Commit("list_for_resale", ListForResale(Cur, seller, e, m, price))

buy_resale ==
  \E buyer \in Parties, seller \in Parties, organizer \in Parties,
     platform \in Parties, e \in EventKeys, m \in MintIds :
    Commit("buy_resale", BuyResale(Cur, buyer, seller, organizer, platform, e, m))

cancel_listing ==
  \E seller \in Parties, m \in MintIds :
    Commit("cancel_listing", CancelListing(Cur, seller, m))

close_event ==
  \E organizer \in Parties, e \in EventKeys :
    Commit("close_event", CloseEvent(Cur, organizer, e))

Next ==
  \/ create_event
  \/ buy_ticket
  \/ list_for_resale
  \/ buy_resale
  \/ cancel_listing
  \/ close_event

Spec == Init /\ [][Next]_vars

\* ------------------------------------------------- sellers who do cancel
\* cancel_listing sent by the seller of the open Listing of mint m.  It is
\* not counted in txCount, so that it stays possible when the other
\* transactions have used up MaxTx.
seller_cancel(m) ==
  /\ m \in DOMAIN listings
  /\ LET r == CancelListing(Cur, listings[m].seller, m) IN
     /\ r.res = "Ok"
     /\ events' = r.st.events
     /\ mints' = r.st.mints
     /\ atas' = r.st.atas
     /\ escrows' = r.st.escrows
     /\ listings' = r.st.listings
     /\ balance' = r.st.balance
  /\ lastTx' = "cancel_listing"
  /\ UNCHANGED <<txCount, split, counter>>

sellers_cancel == \E m \in MintIds : seller_cancel(m)

LiveNext ==
  \/ create_event
  \/ buy_ticket
  \/ list_for_resale
  \/ buy_resale
  \/ close_event
  \/ sellers_cancel

\* every seller of an open Listing eventually sends its cancel_listing,
\* unless the Listing is closed before
LiveSpec ==
  /\ Init
  /\ [][LiveNext]_vars
  /\ \A m \in MintIds : WF_vars(seller_cancel(m))

\* ------------------------------------------------- the split in 64 bits
\* A u64 is four 16-bit limbs, least significant first.
B16 == 65536
U64(l0, l1, l2, l3) == <<l0, l1, l2, l3>>
Zero64 == U64(0, 0, 0, 0)

\* x * k as the limbs of x followed by the part that does not fit in them
RECURSIVE MulLimbs(_, _, _, _)
MulLimbs(x, k, i, carry) ==
  IF i > Len(x) THEN <<carry>>
  ELSE LET t == x[i] * k + carry
       IN <<t % B16>> \o MulLimbs(x, k, i + 1, t \div B16)

\* floor(x / d), limbs i down to 1, with the remainder carried from above
RECURSIVE DivLimbs(_, _, _, _)
DivLimbs(x, d, i, rem) ==
  IF i = 0 THEN << >>
  ELSE LET t == rem * B16 + x[i]
       IN DivLimbs(x, d, i - 1, t % d) \o <<t \div d>>

\* x - y as the limbs of the difference followed by the borrow out
RECURSIVE SubLimbs(_, _, _, _)
SubLimbs(x, y, i, borrow) ==
  IF i > Len(x) THEN <<borrow>>
  ELSE LET t == x[i] - y[i] - borrow
       IN <<IF t < 0 THEN t + B16 ELSE t>>
            \o SubLimbs(x, y, i + 1, IF t < 0 THEN 1 ELSE 0)

Low64(w) == SubSeq(w, 1, 4)

\* price * 40 / 100 in u64: the product keeps its low 64 bits
ArtistShare64(price) == DivLimbs(Low64(MulLimbs(price, 40, 1, 0)), 100, 4, 0)
\* price * 40 does not fit in 64 bits
MulOverflows(price) == MulLimbs(price, 40, 1, 0)[5] # 0

\* the shares computed by buy_resale from a u64 price.  An arithmetic
\* overflow panics in a build with overflow checks and wraps in a build
\* without them.
Split64(price, overflow_checks) ==
  LET artist_share == ArtistShare64(price)
      seller_share == ArtistShare64(price)
      d1 == SubLimbs(price, artist_share, 1, 0)
      d2 == SubLimbs(Low64(d1), seller_share, 1, 0)
  IN
  IF overflow_checks /\ (MulOverflows(price) \/ d1[5] # 0 \/ d2[5] # 0)
    THEN [res |-> "Panic"]
    ELSE [res |-> "Ok", artist_share |-> artist_share,
          seller_share |-> seller_share, platform_share |-> Low64(d2)]

\* require!(price_lamports > 0, InvalidPrice) on a u64
PriceValid64(price) == price # Zero64

\* u64 prices offered to list_for_resale: around 0, around the largest
\* price whose product with 40 fits (0x0666666666666666), and around 2^64
SplitPrices ==
  { U64(l0, l1, l2, l3) :
      l0 \in {0, 1, 50, 26214, 26215, 65535}, l1 \in {0, 26214},
      l2 \in {0, 26214}, l3 \in {0, 1638, 1639, 65535} }

SplitInit ==
  /\ events = << >>
  /\ mints = {}
  /\ atas = << >>
  /\ escrows = << >>
  /\ listings = << >>
  /\ balance = InitBalance
  /\ txCount = 0
  /\ lastTx = "none"
  /\ \E c \in BOOLEAN : split = [pc |-> "idle", overflow_checks |-> c]
  /\ counter = [pc |-> "off"]

\* list_for_resale stores a price it accepts
split_list ==
  /\ split.pc = "idle"
  /\ \E price \in SplitPrices :
       /\ PriceValid64(price)
       /\ split' = [pc |-> "listed", overflow_checks |-> split.overflow_checks,
                    price_lamports |-> price]
  /\ UNCHANGED <<events, mints, atas, escrows, listings, balance, txCount,
                 lastTx, counter>>

\* buy_resale computes the shares of the stored price
split_buy ==
  /\ split.pc = "listed"
  /\ split' = [pc |-> "bought", overflow_checks |-> split.overflow_checks,
               price_lamports |-> split.price_lamports,
               out |-> Split64(split.price_lamports, split.overflow_checks)]
  /\ UNCHANGED <<events, mints, atas, escrows, listings, balance, txCount,
                 lastTx, counter>>

SplitNext ==
  \/ split_list
  \/ split_buy

SplitSpec == SplitInit /\ [][SplitNext]_vars

\* ---------------------------------------------- the counter in 32 bits
\* A u32 is two 16-bit limbs, least significant first.
U32(lo, hi) == <<lo, hi>>
Zero32 == U32(0, 0)
U32Max == U32(B16 - 1, B16 - 1)

\* x < y on u32
Less32(x, y) == x[2] < y[2] \/ (x[2] = y[2] /\ x[1] < y[1])

\* variant: the supply check off by one
NotSoldOutOffByOne32(sold, supply) == Less32(sold, supply) \/ sold = supply
\* require!(event.sold < event.supply, SoldOut) on u32
NotSoldOut32(sold, supply) == Less32(sold, supply)

\* sold.checked_add(1): None when the sum does not fit in 32 bits
CheckedAdd1(x) ==
  IF x = U32Max THEN [some |-> FALSE]
  ELSE [some |-> TRUE,
        val |-> IF x[1] = B16 - 1 THEN U32(0, x[2] + 1)
                                  ELSE U32(x[1] + 1, x[2])]

\* what buy_ticket does with the counters of its event, once the accounts
\* are validated and the buyer has paid
BuyTicket32(sold, supply) ==
  IF ~NotSoldOut32(sold, supply) THEN [res |-> "SoldOut", sold |-> sold]
  ELSE IF ~CheckedAdd1(sold).some THEN [res |-> "Overflow", sold |-> sold]
  ELSE [res |-> "Ok", sold |-> CheckedAdd1(sold).val]

\* u32 values around 0, around 2^16 and around 2^32
U32Cases ==
  { U32(lo, hi) : lo \in {0, 1, 2, B16 - 2, B16 - 1}, hi \in {0, 1, B16 - 1} }

\* an event as create_event and earlier buy_ticket calls leave it:
\* supply > 0 and sold <= supply
CounterInit ==
  /\ events = << >>
  /\ mints = {}
  /\ atas = << >>
  /\ escrows = << >>
  /\ listings = << >>
  /\ balance = InitBalance
  /\ txCount = 0
  /\ lastTx = "none"
  /\ split = [pc |-> "off"]
  /\ \E supply \in U32Cases \ {Zero32}, sold \in U32Cases :
       /\ ~Less32(supply, sold)
       /\ counter = [pc |-> "event", supply |-> supply, sold |-> sold,
                     res |-> "none", calls |-> 0]

counter_buy ==
  /\ counter.pc = "event"
  /\ counter.calls < MaxBuys
  /\ counter' = [pc |-> "event", supply |-> counter.supply,
                 sold |-> BuyTicket32(counter.sold, counter.supply).sold,
                 res |-> BuyTicket32(counter.sold, counter.supply).res,
                 calls |-> counter.calls + 1]
  /\ UNCHANGED <<events, mints, atas, escrows, listings, balance, txCount,
                 lastTx, split>>

CounterNext == counter_buy

CounterSpec == CounterInit /\ [][CounterNext]_vars

\* ------------------------------------------------------------------ claims
\* The step is the committed transaction r.
Committed(r) == r.res = "Ok" /\ Cur' = r.st

\* units of mint m held by all token accounts
RECURSIVE SumAtas(_, _, _)
SumAtas(A, m, ps) ==
  IF ps = {} THEN 0
  ELSE LET p == CHOOSE x \in ps : TRUE
       IN Amount(A, <<p, m>>) + SumAtas(A, m, ps \ {p})
Units(S, m) == SumAtas(S.atas, m, Parties) + Amount(S.escrows, m)

\* C1: every Event account has supply > 0 and 0 <= sold <= supply, whatever
\* instructions have run.
C1_SoldWithinSupply ==
  \A e \in DOMAIN events :
    /\ events[e].supply > 0
    /\ 0 <= events[e].sold
    /\ events[e].sold <= events[e].supply

\* a sold-out event of the largest supply, with one of its tickets listed
C1_Witness ==
  \E e \in DOMAIN events :
    /\ events[e].sold = events[e].supply
    /\ events[e].supply = MaxSupply
    /\ \E m \in DOMAIN listings : m[1] = e

\* C2: on every event, buy_ticket by a buyer who can pay succeeds while fewer
\* than supply tickets were sold, and fails with SoldOut once sold = supply;
\* this covers an event created again after close_event.
C2_BuyTicketUntilSoldOut ==
  \A e \in DOMAIN events : \A b \in Parties :
    balance[b] >= events[e].price_lamports =>
      BuyTicket(Cur, b, events[e].organizer, e).res =
        IF events[e].sold < events[e].supply THEN "Ok" ELSE "SoldOut"

\* C3: no mint account is ever removed, and every committed buy_ticket creates
\* the mint <<event, sold before the increment>>, which did not exist before.
C3_MintCreatedOnce ==
  [][ /\ mints \subseteq mints'
      /\ txCount' # txCount =>
           \A b \in Parties, o \in Parties, e \in EventKeys :
             Committed(BuyTicket(Cur, b, o, e)) =>
               /\ <<e, events[e].sold>> \notin mints
               /\ mints' = mints \cup {<<e, events[e].sold>>}
               /\ Units(Cur, <<e, events[e].sold>>) = 0
               /\ Units(Cur', <<e, events[e].sold>>) = 1 ]_vars

\* an event created again under its old address, next to the mint its first
\* incarnation issued
C3_Witness ==
  \E e \in DOMAIN events :
    /\ events[e].sold = 0
    /\ <<e, 0>> \in mints
    /\ lastTx = "create_event"

\* C4: a committed buy_ticket moves exactly the event's price from the buyer
\* to the organizer, gives the buyer the one unit of a mint that did not exist,
\* and adds 1 to sold, all in the same step; no step mints a ticket without
\* that payment, and no step pays outside a resale without minting.
C4_BuyTicketAtomic ==
  [][ /\ txCount' # txCount =>
           \A b \in Parties, o \in Parties, e \in EventKeys :
             Committed(BuyTicket(Cur, b, o, e)) =>
               LET ev == events[e]
                   m == <<e, ev.sold>>
               IN
               /\ o = ev.organizer
               /\ balance[b] >= ev.price_lamports
               /\ \A p \in Parties :
                    balance'[p] =
                      balance[p]
                        - (IF p = b THEN ev.price_lamports ELSE 0)
                        + (IF p = ev.organizer THEN ev.price_lamports ELSE 0)
               /\ m \notin mints /\ m \in mints'
               /\ Amount(atas', <<b, m>>) = 1
               /\ Units(Cur', m) = 1
               /\ events' = [events EXCEPT ![e].sold = ev.sold + 1]
               /\ listings' = listings /\ escrows' = escrows
      /\ mints' # mints =>
           \E b \in Parties, e \in DOMAIN events :
             /\ mints' = mints \cup {<<e, events[e].sold>>}
             /\ Amount(atas', <<b, <<e, events[e].sold>>>>) = 1
             /\ balance[b] >= events[e].price_lamports
             /\ \A p \in Parties :
                  balance'[p] =
                    balance[p]
                      - (IF p = b THEN events[e].price_lamports ELSE 0)
                      + (IF p = events[e].organizer
                           THEN events[e].price_lamports ELSE 0)
             /\ events' = [events EXCEPT ![e].sold = events[e].sold + 1]
      /\ (balance' # balance /\ listings' = listings) => mints' # mints ]_vars

\* a buyer other than the organizer has just bought the first ticket
C4_Witness ==
  /\ lastTx = "buy_ticket"
  /\ \E e \in DOMAIN events, b \in Parties :
       /\ b # events[e].organizer
       /\ events[e].sold = 1
       /\ Amount(atas, <<b, <<e, 0>>>>) = 1
       /\ balance[b] = InitBalance[b] - events[e].price_lamports
       /\ balance[events[e].organizer] =
            InitBalance[events[e].organizer] + events[e].price_lamports

\* balances after buyer b paid a to o, s to sl and p to pl
Paid3(bal, b, o, a, sl, s, pl, p) ==
  [x \in Parties |->
     bal[x] - (IF x = b THEN a + s + p ELSE 0)
            + (IF x = o THEN a ELSE 0)
            + (IF x = sl THEN s ELSE 0)
            + (IF x = pl THEN p ELSE 0)]

\* the shares of every price up to MaxSplitPrice add up to the price
C5_SplitExact ==
  \A price \in 1 .. MaxSplitPrice :
    ArtistShare(price) + SellerShare(price) + PlatformShare(price) = price

\* the lamports a committed buy_resale moves are the three shares of the price
C5_ResaleStep ==
  lastTx' = "buy_resale" /\ txCount' # txCount =>
    \A b \in Parties, sl \in Parties, o \in Parties, pl \in Parties,
       e \in EventKeys, m \in MintIds :
      Committed(BuyResale(Cur, b, sl, o, pl, e, m)) =>
        LET price == listings[m].price_lamports
            a == ArtistShare(price)
            s == SellerShare(price)
            p == PlatformShare(price)
        IN
        /\ price >= 1
        /\ a + s + p = price
        /\ a >= 0 /\ s >= 0 /\ p >= 0
        /\ price = 7 => (a = 2 /\ s = 2 /\ p = 3)
        /\ balance' = Paid3(balance, b, o, a, sl, s, pl, p)

\* C5: the three amounts a committed buy_resale moves from the buyer (to the
\* organizer, the seller and the platform) sum to the listing's price exactly,
\* for every price >= 1; price 7 gives 2, 2, 3.
C5_ResaleSharesSumToPrice == [](C5_SplitExact) /\ [][C5_ResaleStep]_vars

\* carol's ticket was resold at 7 to alice with bob as the platform
C5_Witness ==
  /\ lastTx = "buy_resale"
  /\ balance["bob"] = InitBalance["bob"] + 3
  /\ \E m \in mints :
       /\ Amount(atas, <<"alice", m>>) = 1
       /\ <<"carol", m>> \in DOMAIN atas
       /\ m[1][1] = "alice"

\* C6: a Listing exists for a mint exactly when the escrow token account of
\* that mint exists and holds the ticket's one unit (no party holds it then),
\* and no two Listings name the same mint.
C6_ListingIffEscrowed ==
  /\ \A m \in mints \cup DOMAIN listings \cup DOMAIN escrows :
       /\ (m \in DOMAIN listings) <=> (m \in DOMAIN escrows /\ escrows[m] = 1)
       /\ m \in DOMAIN listings =>
            \A p \in Parties : Amount(atas, <<p, m>>) = 0
       /\ m \in DOMAIN escrows => m \in DOMAIN listings
  /\ \A m1 \in DOMAIN listings, m2 \in DOMAIN listings :
       listings[m1].ticket_mint = listings[m2].ticket_mint => m1 = m2
  /\ \A m \in DOMAIN listings : listings[m].ticket_mint = m

\* a ticket that changed hands in a resale is listed again by its new holder
C6_Witness ==
  /\ lastTx = "list_for_resale"
  /\ \E m \in DOMAIN listings : \E p \in Parties :
       /\ p # listings[m].seller
       /\ <<p, m>> \in DOMAIN atas

\* C7: while a mint has an open Listing, list_for_resale for it (by a caller
\* with a token account of the mint, naming an existing event) fails with
\* AlreadyExists and changes nothing; right after buy_resale or cancel_listing
\* closed that Listing, the ticket's holder can list it again at any price > 0.
C7_RelistAfterClose ==
  [][ /\ \A m \in DOMAIN listings :
           \A s \in Parties, e \in DOMAIN events, p \in ListPrices :
             <<s, m>> \in DOMAIN atas =>
               /\ ListForResale(Cur, s, e, m, p).res = "AlreadyExists"
               /\ ListForResale(Cur, s, e, m, p).st = Cur
      /\ \A m \in DOMAIN listings :
           (m \notin DOMAIN listings'
              /\ lastTx' \in {"buy_resale", "cancel_listing"}) =>
             \A s \in Parties :
               Amount(atas', <<s, m>>) = 1 =>
                 \A p \in ListPrices \ {0} : \E e \in EventKeys :
                   ListForResale(Cur', s, e, m, p).res = "Ok" ]_vars

\* without a Listing for a mint, every buy_resale for it fails with NotFound
C8_NoListingNoSale ==
  \A m \in MintIds \ DOMAIN listings :
    \A b \in Parties, sl \in Parties, o \in Parties, pl \in Parties,
       e \in EventKeys :
      /\ BuyResale(Cur, b, sl, o, pl, e, m).res = "NotFound"
      /\ BuyResale(Cur, b, sl, o, pl, e, m).st = Cur

\* what a committed cancel_listing does
C8_Cancel ==
  lastTx' = "cancel_listing" /\ txCount' # txCount =>
    \A c \in Parties, m \in MintIds :
      Committed(CancelListing(Cur, c, m)) =>
        /\ c = listings[m].seller
        /\ Amount(atas', <<listings[m].seller, m>>) = 1
        /\ Units(Cur', m) = 1
        /\ m \notin DOMAIN escrows'
        /\ m \notin DOMAIN listings'
        /\ balance' = balance
        /\ events' = events /\ mints' = mints
        /\ \A b \in Parties, sl \in Parties, o \in Parties,
              pl \in Parties, e \in EventKeys :
             /\ BuyResale(Cur', b, sl, o, pl, e, m).res = "NotFound"
             /\ BuyResale(Cur', b, sl, o, pl, e, m).st = Cur'

\* C8: a committed cancel_listing gives the escrowed unit back to
\* listing.seller, closes the escrow token account, removes the Listing and
\* moves no lamports; afterwards, as long as the mint has no Listing, every
\* buy_resale for that mint fails with NotFound and changes nothing.
C8_CancelReturnsTicket == [](C8_NoListingNoSale) /\ [][C8_Cancel]_vars

\* a listing was just cancelled and its seller holds the ticket again
C8_Witness ==
  /\ lastTx = "cancel_listing"
  /\ \E m \in mints \ DOMAIN listings : \E p \in Parties :
       /\ Amount(atas, <<p, m>>) = 1
       /\ m \notin DOMAIN escrows

\* a listed ticket sits in escrow, and only listing.seller may cancel
C9_Escrowed ==
  \A m \in DOMAIN listings :
    /\ \A p \in Parties : Amount(atas, <<p, m>>) = 0
    /\ Amount(escrows, m) = 1
    /\ \A c \in Parties \ {listings[m].seller} :
         /\ CancelListing(Cur, c, m).res = "InvalidSeller"
         /\ CancelListing(Cur, c, m).st = Cur

\* a step that takes a listed ticket out of escrow is a trade or a cancel
C9_Release ==
  \A m \in DOMAIN listings :
    (\/ m \notin DOMAIN listings'
     \/ Amount(escrows', m) # 1
     \/ \E p \in Parties : Amount(atas', <<p, m>>) # 0) =>
      LET l == listings[m] IN
      \/ /\ lastTx' = "buy_resale"
         /\ l.event \in DOMAIN events
         /\ \E b \in Parties, pl \in Parties :
              /\ Committed(BuyResale(Cur, b, l.seller,
                                     events[l.event].organizer, pl, l.event, m))
              /\ Amount(atas', <<b, m>>) = 1
              /\ Units(Cur', m) = 1
              /\ \E a \in 0 .. l.price_lamports, s \in 0 .. l.price_lamports :
                   /\ a + s <= l.price_lamports
                   /\ balance' =
                        Paid3(balance, b, events[l.event].organizer, a,
                              l.seller, s, pl, l.price_lamports - a - s)
      \/ /\ lastTx' = "cancel_listing"
         /\ Committed(CancelListing(Cur, l.seller, m))
         /\ Amount(atas', <<l.seller, m>>) = 1
         /\ Units(Cur', m) = 1

\* C9: while a Listing is open no party holds the ticket and cancel_listing by
\* anyone but listing.seller fails with InvalidSeller; the ticket leaves escrow
\* only in a committed buy_resale, to its buyer, who pays the whole price in
\* that step, or in a committed cancel_listing by listing.seller, to the seller.
C9_EscrowReleasedOnlyByTrade == [](C9_Escrowed) /\ [][C9_Release]_vars

\* a resale just moved an escrowed ticket to a buyer who is not its seller
C9_Witness ==
  /\ lastTx = "buy_resale"
  /\ \E m \in mints \ DOMAIN listings : \E b \in Parties, p \in Parties :
       /\ b # p
       /\ Amount(atas, <<b, m>>) = 1
       /\ <<p, m>> \in DOMAIN atas
       /\ atas[<<p, m>>] = 0

\* C10: buy_resale for a listed mint, given an existing event, returns Ok only
\* when the event is listing.event, the mint is listing.ticket_mint, the
\* seller is listing.seller and the organizer is event.organizer; a wrong
\* seller gives InvalidSeller, a wrong organizer (with the right seller)
\* InvalidOrganizer, and every failure leaves all accounts as they were.
C10_ResaleChecksIdentities ==
  \A m \in DOMAIN listings, e \in DOMAIN events :
    \A b \in Parties, sl \in Parties, o \in Parties, pl \in Parties :
      LET l == listings[m]
          r == BuyResale(Cur, b, sl, o, pl, e, m)
      IN
      /\ r.res = "Ok" =>
           /\ e = l.event
           /\ m = l.ticket_mint
           /\ sl = l.seller
           /\ o = events[e].organizer
      /\ sl # l.seller => r.res = "InvalidSeller"
      /\ (sl = l.seller /\ o # events[e].organizer) =>
           r.res = "InvalidOrganizer"
      /\ r.res # "Ok" =>
           /\ r.st = Cur
           /\ m \in DOMAIN r.st.listings

\* a listing that can be bought, next to a second event that it does not name
C10_Witness ==
  \E m \in DOMAIN listings, e2 \in DOMAIN events :
    LET l == listings[m] IN
    /\ l.event \in DOMAIN events
    /\ e2 # l.event
    /\ \E b \in Parties, pl \in Parties :
         /\ BuyResale(Cur, b, l.seller, events[l.event].organizer, pl,
                      l.event, m).res = "Ok"
         /\ BuyResale(Cur, b, l.seller, events[e2].organizer, pl,
                      e2, m).res = "ConstraintRaw"
         /\ \E x \in Parties \ {l.seller} :
              BuyResale(Cur, b, x, events[l.event].organizer, pl,
                        l.event, m).res = "InvalidSeller"
         /\ \E x \in Parties \ {events[l.event].organizer} :
              BuyResale(Cur, b, l.seller, x, pl, l.event, m).res =
                "InvalidOrganizer"

\* the token accounts (parties' and escrow) that hold a unit of mint m
Holders(S, m) ==
  { <<"owner", p>> : p \in { q \in Parties : Amount(S.atas, <<q, m>>) > 0 } }
    \cup (IF Amount(S.escrows, m) > 0 THEN {<<"escrow", m>>} ELSE {})

\* C11: every ticket mint that exists has exactly one unit, held by exactly
\* one token account (a party's, or the escrow of that mint), in every state
\* after its buy_ticket; mints that do not exist have no unit, and token
\* accounts never hold more than one unit.
C11_OneUnitForEver ==
  /\ \A m \in mints :
       /\ Units(Cur, m) = 1
       /\ Cardinality(Holders(Cur, m)) = 1
  /\ \A m \in MintIds \ mints : Units(Cur, m) = 0
  /\ \A k \in DOMAIN atas : atas[k] \in {0, 1}
  /\ \A m \in DOMAIN escrows : escrows[m] \in {0, 1}

\* a ticket sits in escrow while its event was closed and created again
C11_Witness ==
  /\ lastTx = "create_event"
  /\ \E m \in mints :
       /\ Amount(escrows, m) = 1
       /\ m[1] \in DOMAIN events
       /\ events[m[1]].sold = 0

\* close_event by anyone but event.organizer fails and changes nothing
C12_OnlyOrganizerCloses ==
  \A e \in DOMAIN events : \A c \in Parties :
    LET r == CloseEvent(Cur, c, e) IN
    IF c = events[e].organizer
      THEN r.res = "Ok"
      ELSE /\ r.res = "InvalidOrganizer"
           /\ r.st = Cur
           /\ e \in DOMAIN r.st.events

\* what a committed close_event does
C12_Close ==
  lastTx' = "close_event" /\ txCount' # txCount =>
    \E e \in DOMAIN events :
      /\ Committed(CloseEvent(Cur, events[e].organizer, e))
      /\ events' = Del(events, e)
      /\ e \notin DOMAIN events'
      /\ atas' = atas /\ escrows' = escrows /\ listings' = listings
      /\ mints' = mints /\ balance' = balance
      /\ \A m \in mints : Holders(Cur', m) = Holders(Cur, m)

C13_CloseOnlyUnsold ==
  \A e \in DOMAIN events :
    events[e].sold > 0 =>
      \A c \in Parties :
        /\ CloseEvent(Cur, c, e).res # "Ok"
        /\ e \in DOMAIN CloseEvent(Cur, c, e).st.events

\* every failing call of every instruction returns the accounts it was given
C14_FailedCallKeepsAll ==
  /\ \A o \in Organizers, n \in Nonces, lens \in LenCases,
        p \in EventPrices, s \in 0 .. MaxSupply :
       LET r == CreateEvent(Cur, o, n, lens, p, s) IN
       r.res # "Ok" => r.st = Cur
  /\ \A b \in Parties, o \in Parties, e \in EventKeys :
       LET r == BuyTicket(Cur, b, o, e) IN
       /\ r.res # "Ok" => r.st = Cur
       /\ (/\ e \in DOMAIN events
           /\ o = events[e].organizer
           /\ events[e].sold = events[e].supply) => r.res = "SoldOut"
  /\ \A sl \in Parties, e \in EventKeys, m \in MintIds, p \in ListPrices :
       LET r == ListForResale(Cur, sl, e, m, p) IN
       /\ r.res # "Ok" => r.st = Cur
       /\ (/\ p = 0
           /\ e \in DOMAIN events
           /\ Amount(atas, <<sl, m>>) = 1) => r.res = "InvalidPrice"
  /\ \A b \in Parties, sl \in Parties, o \in Parties, pl \in Parties,
        e \in EventKeys, m \in MintIds :
       LET r == BuyResale(Cur, b, sl, o, pl, e, m) IN
       /\ r.res # "Ok" => r.st = Cur
       /\ (/\ r.res \in {"Ok", "InsufficientFunds"}
           /\ b \notin {sl, o, pl}
           /\ balance[b] < listings[m].price_lamports) =>
            r.res = "InsufficientFunds"
  /\ \A c \in Parties, m \in MintIds :
       LET r == CancelListing(Cur, c, m) IN
       r.res # "Ok" => r.st = Cur
  /\ \A c \in Parties, e \in EventKeys :
       LET r == CloseEvent(Cur, c, e) IN
       r.res # "Ok" => r.st = Cur

\* a step that commits no transaction changes no account
C14_FailedStep == txCount' = txCount => Cur' = Cur

ExactShare64(price) == DivLimbs(MulLimbs(price, 40, 1, 0), 100, 5, 0)

\* C15: for every u64 price > 0 that list_for_resale accepts, buy_resale
\* computes the shares without price * 40 overflowing 64 bits: it does not
\* panic, artist_share = seller_share = floor(price * 40 / 100), and
\* platform_share = price - artist_share - seller_share; 50 gives 20/20/10
\* and 1 gives 0/0/1.
C15_SplitFitsU64 ==
  split.pc = "bought" =>
    LET price == split.price_lamports
        exact == ExactShare64(price)
        rest == SubLimbs(Low64(SubLimbs(price, Low64(exact), 1, 0)),
                         Low64(exact), 1, 0)
    IN
    /\ ~MulOverflows(price)
    /\ split.out.res = "Ok"
    /\ split.out.artist_share = Low64(exact)
    /\ split.out.seller_share = Low64(exact)
    /\ split.out.platform_share = Low64(rest)
    /\ price = U64(50, 0, 0, 0) =>
         /\ split.out.artist_share = U64(20, 0, 0, 0)
         /\ split.out.platform_share = U64(10, 0, 0, 0)
    /\ price = U64(1, 0, 0, 0) =>
         /\ split.out.artist_share = Zero64
         /\ split.out.platform_share = U64(1, 0, 0, 0)

\* for the prices of Spec the 64-bit split is the split BuyResale uses
Split64AgreesWithShares ==
  \A price \in 1 .. MaxSplitPrice :
    LET out == Split64(U64(price, 0, 0, 0), TRUE) IN
    /\ out.res = "Ok"
    /\ out.artist_share = U64(ArtistShare(price), 0, 0, 0)
    /\ out.seller_share = U64(SellerShare(price), 0, 0, 0)
    /\ out.platform_share = U64(PlatformShare(price), 0, 0, 0)

\* the transaction that runs second on the accounts S left by the first, for
\* the listing of mint m that the first has closed: it fails and moves nothing
C16_LoserFails(S, m) ==
  /\ m \notin DOMAIN S.listings
  /\ m \notin DOMAIN S.escrows
  /\ Units(S, m) = 1
  /\ \A b \in Parties, sl \in Parties, o \in Parties, pl \in Parties,
        e \in EventKeys :
       /\ BuyResale(S, b, sl, o, pl, e, m).res = "NotFound"
       /\ BuyResale(S, b, sl, o, pl, e, m).st = S
  /\ \A c \in Parties :
       /\ CancelListing(S, c, m).res = "NotFound"
       /\ CancelListing(S, c, m).st = S

\* C16: of two transactions for the same open Listing (two buy_resale calls,
\* or a buy_resale and a cancel_listing), run one after the other in either
\* order, the first that can commit commits and every buy_resale or
\* cancel_listing after it fails with NotFound and changes no account; so when
\* each could commit alone exactly one commits, and the one unit ends with the
\* winner: the buyer of the first kind, the seller of the second.
C16_OneWinnerPerListing ==
  \A m \in DOMAIN listings :
    /\ \A b \in Parties, sl \in Parties, o \in Parties, pl \in Parties,
          e \in EventKeys :
         LET r1 == BuyResale(Cur, b, sl, o, pl, e, m) IN
         r1.res = "Ok" =>
           /\ C16_LoserFails(r1.st, m)
           /\ Amount(r1.st.atas, <<b, m>>) = 1
    /\ \A c \in Parties :
         LET r1 == CancelListing(Cur, c, m) IN
         r1.res = "Ok" =>
           /\ C16_LoserFails(r1.st, m)
           /\ Amount(r1.st.atas, <<listings[m].seller, m>>) = 1
           /\ r1.st.balance = balance

\* an open Listing that two different buyers could each buy and that its
\* seller could cancel
C16_Witness ==
  \E m \in DOMAIN listings :
    LET l == listings[m] IN
    /\ l.event \in DOMAIN events
    /\ \E b1 \in Parties, b2 \in Parties, pl \in Parties :
         /\ b1 # b2
         /\ l.seller \notin {b1, b2}
         /\ BuyResale(Cur, b1, l.seller, events[l.event].organizer, pl,
                      l.event, m).res = "Ok"
         /\ BuyResale(Cur, b2, l.seller, events[l.event].organizer, pl,
                      l.event, m).res = "Ok"
    /\ CancelListing(Cur, l.seller, m).res = "Ok"

\* C17: every Listing names the event that issued its ticket mint (the first
\* seed of the mint), so list_for_resale with any other event creates no
\* Listing, and the artist share of a buy_resale goes to that event's
\* organizer.
C17_ListingNamesIssuer ==
  /\ \A m \in DOMAIN listings : listings[m].event = m[1]
  /\ \A s \in Parties, e \in EventKeys, m \in MintIds, p \in ListPrices :
       e # m[1] => ListForResale(Cur, s, e, m, p).res # "Ok"

\* C18: a buy_resale that succeeds for a buyer who is neither listing.seller
\* nor event.organizer leaves that buyer with exactly listing.price_lamports
\* less, whichever platform account the call names.
C18_BuyerPaysWholePrice ==
  \A m \in DOMAIN listings, e \in DOMAIN events :
    \A b \in Parties, sl \in Parties, o \in Parties, pl \in Parties :
      LET r == BuyResale(Cur, b, sl, o, pl, e, m) IN
      (r.res = "Ok" /\ b # listings[m].seller /\ b # events[e].organizer) =>
        r.st.balance[b] = balance[b] - listings[m].price_lamports

\* cancel_listing by the seller of any open Listing succeeds
C19_SellerCanCancel ==
  \A m \in DOMAIN listings :
    LET r == CancelListing(Cur, listings[m].seller, m) IN
    /\ r.res = "Ok"
    /\ Amount(r.st.atas, <<listings[m].seller, m>>) = 1
    /\ m \notin DOMAIN r.st.listings

\* a listed ticket eventually is held by a party again
C19_Returns ==
  \A m \in MintIds :
    (m \in DOMAIN listings) ~> (\E p \in Parties : Amount(atas, <<p, m>>) = 1)

\* C19: in every state with an open Listing, cancel_listing by listing.seller
\* succeeds and returns the ticket, whether or not the listing's event still
\* exists; with sellers who do send their cancel, every listed ticket is
\* eventually held by a party again.
C19_NoTicketStuck == [](C19_SellerCanCancel) /\ C19_Returns

\* a Listing is open and its event was just closed
C19_Witness ==
  /\ lastTx = "close_event"
  /\ \E m \in DOMAIN listings :
       /\ listings[m].event \notin DOMAIN events
       /\ m[1] \notin DOMAIN events
       /\ listings[m].seller # m[1][1]

\* C20: buy_ticket never fails with Overflow: the increment of sold runs only
\* after the SoldOut check has passed, so sold < supply <= 2^32 - 1 and
\* sold + 1 fits in 32 bits; sold stays within supply.
C20_OverflowUnreachable ==
  counter.pc = "event" =>
    /\ counter.res # "Overflow"
    /\ BuyTicket32(counter.sold, counter.supply).res # "Overflow"
    /\ NotSoldOut32(counter.sold, counter.supply) =>
         /\ counter.sold # U32Max
         /\ CheckedAdd1(counter.sold).some
         /\ ~Less32(counter.supply, CheckedAdd1(counter.sold).val)
    /\ ~Less32(counter.supply, counter.sold)

\* the last ticket of an event of supply 2^32 - 1 was just sold
C20_Witness ==
  /\ counter.pc = "event"
  /\ counter.supply = U32Max
  /\ counter.sold = U32Max
  /\ counter.res = "Ok"

\* for the counters of Spec the 32-bit checks are the checks BuyTicket uses
Counter32AgreesWithBuyTicket ==
  \A supply \in 1 .. MaxSupply, sold \in 0 .. MaxSupply :
    /\ NotSoldOut32(U32(sold, 0), U32(supply, 0))
         <=> NotSoldOut([sold |-> sold, supply |-> supply])
    /\ CheckedAdd1(U32(sold, 0)).some <=> ~IsU32Max(sold)
    /\ CheckedAdd1(U32(sold, 0)).val = U32(sold + 1, 0)

====
